---- MODULE Spec2Model ----
(***************************************************************************)
(* Model of cis_benchmarks.py: the catalog fetch, the browser discovery    *)
(* session with its response callbacks on the asyncio event loop, and the  *)
(* sequential download loop of main.                                       *)
(*                                                                         *)
(* Strings that the code inspects (URLs, paths, ids) are sequences of      *)
(* tokens; "/" and every digit is a token of its own, so that endswith     *)
(* and os.path.join act on them as they act on characters.                 *)
(***************************************************************************)
EXTENDS Integers, Sequences, FiniteSets, Bags, TLC

\* ------------------------------------------------------------------ bounds
MaxRuns == 2
MaxResponses == 2

\* ------------------------------------------------------- string operations
DigitTokens == <<"0", "1", "2", "3", "4", "5", "6", "7", "8", "9">>

RECURSIVE StrOf(_)
\* str(item["id"]) of a non-negative integer id
StrOf(n) ==
    IF n < 10 THEN <<DigitTokens[n + 1]>>
    ELSE StrOf(n \div 10) \o <<DigitTokens[(n % 10) + 1]>>

\* str.endswith
EndsWith(s, suf) ==
    /\ Len(suf) <= Len(s)
    /\ SubSeq(s, Len(s) - Len(suf) + 1, Len(s)) = suf

\* os.path.join(a, b) on POSIX
PathJoin(a, b) ==
    IF b # <<>> /\ b[1] = "/" THEN b
    ELSE IF a = <<>> \/ a[Len(a)] = "/" THEN a \o b
    ELSE a \o <<"/">> \o b

\* the constant suffix "/benchmarks/latest" of line 143
LatestSuffix == <<"/", "benchmarks", "/", "latest">>

\* the constant "https://learn.cisecurity.org" of line 149
PdfBase == <<"https://learn.cisecurity.org">>

\* -------------------------------------------------------------- the remote
\* catalog bodies: a JSON object category -> list of {id, title}
CatalogOne ==
    << [key |-> <<"O">>, items |-> << [id |-> 7, title |-> <<"L">>] >>] >>

CatalogTwo ==
    << [key |-> <<"O">>, items |-> << [id |-> 7, title |-> <<"L">>] >>],
       [key |-> <<"N">>, items |-> << [id |-> 17, title |-> <<"M">>] >>] >>

Catalogs == {CatalogOne, CatalogTwo}

\* the "latest benchmarks" endpoint of the technology with id n
UrlOf(n) == <<"https://downloads.cisecurity.org/technology", "/">> \o StrOf(n) \o LatestSuffix

\* URLs of the responses the page can issue for catalog c: the catalog
\* endpoint and the endpoints of the technologies of c
Urls(c) ==
    {<<"https://downloads.cisecurity.org/technology">>}
        \cup UNION {{UrlOf(c[i].items[j].id) : j \in 1..Len(c[i].items)} : i \in 1..Len(c)}

\* bodies of the "latest benchmarks" responses
BodyOne ==
    << [documents |-> << [id |-> "d1", pardot_id |-> "/x1", filename |-> <<"a">>] >>] >>

BodyAbs ==
    << [documents |-> << [id |-> "d2", pardot_id |-> "/x2", filename |-> <<"/", "e">>] >>] >>

BodyNoKey ==
    << [documents |-> << [id |-> "d3", filename |-> <<"c">>] >>] >>

Bodies == <<BodyOne, BodyAbs, BodyNoKey>>

\* HTTP statuses a PDF request can end with
Statuses == {200, 304, 404}

\* HTTP statuses the catalog request can end with
CatalogStatuses == {200, 500}

\* ------------------------------------------------------------------- state
VARIABLES
    run,                \* number of the current run of main
    pc,                 \* position of main
    catalog,            \* the remote catalog (the same in every run)
    technologies_dict,  \* ordered mapping: <<[tech_id, tech_path, resource_list]>>
    tasks,              \* bag of the pending process_benchmark_response tasks
    browser,            \* "none", "open", "closed"
    total_benchmarks,
    current_benchmark,
    ti, ri,             \* position of the download loops (technology, resource)
    dirs,               \* directories on disk
    files,              \* files on disk: path -> content
    \* history
    dirs0,              \* the directories on disk when this run started
    catalogResp,        \* the response fetch_technology_categories holds (until launch)
    catalogReqs,        \* catalog requests issued in this run
    nresp,              \* responses observed in this run
    appends,            \* the (url, tech_id) of the appends of the callbacks of this run
    appended,           \* number of records the callbacks of this run have appended
    keyErrors,          \* callbacks of this run that died in extract_document_info
    tallied,            \* the resource records at the time of the tally
    calls,              \* download_benchmark_file calls of this run
    gets,               \* PDF GETs of this run
    writes,             \* files opened for writing in this run
    skips,              \* calls of this run that found the file present
    prevComplete,       \* the previous run ended normally
    prevPaths           \* destination paths of the previous run's calls

vars == <<run, pc, catalog, technologies_dict, tasks, browser, total_benchmarks,
          current_benchmark, ti, ri, dirs, files, dirs0, catalogResp,
          catalogReqs, nresp, appends, appended, keyErrors, tallied, calls, gets, writes, skips,
          prevComplete, prevPaths>>

NoResp == [status |-> 0, wellformed |-> FALSE]

\* ------------------------------------------------------------- filesystem
\* os.path.isdir in the place of os.path.exists
PathExistsDirOnly(p) == p \in dirs

\* the test made on file_name in the place of file_path
PathExistsBasename(p) == <<p[Len(p)]>> \in DOMAIN files \/ <<p[Len(p)]>> \in dirs

\* os.path.exists
PathExists(p) == p \in DOMAIN files \/ p \in dirs

\* the file opened under file_name in the place of file_path
WriteFileBasename(f, p, content) == (<<p[Len(p)]>> :> content) @@ f

\* open(file_path, "wb") and the writes of lines 63-69
WriteFile(f, p, content) == (p :> content) @@ f

\* the directory a path lives in
ParentOf(p) ==
    LET cuts == {k \in 1..Len(p) : p[k] = "/"}
    IN  IF cuts = {} THEN <<>>
        ELSE LET last == CHOOSE k \in cuts : \A j \in cuts : j <= k
             IN  IF last = 1 THEN <<"/">> ELSE SubSeq(p, 1, last - 1)

\* Path.mkdir(parents=True, exist_ok=True)
create_directory(d, p) ==
    d \cup {SubSeq(p, 1, k) : k \in {j \in 1..Len(p) : j = Len(p) \/ p[j + 1] = "/"}}

\* ------------------------------------------------- fetch_technology_categories
RECURSIVE FlattenCatalog(_)
\* the (category_key, item) pairs in iteration order (lines 123-124)
FlattenCatalog(c) ==
    IF c = <<>> THEN <<>>
    ELSE [i \in 1..Len(c[1].items) |-> [key |-> c[1].key, item |-> c[1].items[i]]]
         \o FlattenCatalog(Tail(c))

\* d[k] = v on an insertion-ordered dict
DictSet(d, k, v) ==
    IF \E i \in 1..Len(d) : d[i].k = k
    THEN [i \in 1..Len(d) |-> IF d[i].k = k THEN [k |-> k, v |-> v] ELSE d[i]]
    ELSE Append(d, [k |-> k, v |-> v])

RECURSIVE TechnologyPaths(_, _)
TechnologyPaths(pairs, acc) ==
    IF pairs = <<>> THEN acc
    ELSE TechnologyPaths(Tail(pairs),
            DictSet(acc, StrOf(pairs[1].item.id),
                    PathJoin(pairs[1].key, pairs[1].item.title)))

RECURSIVE CatalogDirs(_, _)
CatalogDirs(pairs, d) ==
    IF pairs = <<>> THEN d
    ELSE CatalogDirs(Tail(pairs),
            create_directory(d, PathJoin(pairs[1].key, pairs[1].item.title)))

\* lines 175-178 of main
InitTechnologies(paths) ==
    [i \in 1..Len(paths) |->
        [tech_id |-> paths[i].k, tech_path |-> paths[i].v, resource_list |-> <<>>]]

\* ------------------------------------------------------- extract_document_info
RECURSIVE AllDocuments(_)
\* the documents of all categories, or a KeyError on a missing "documents"
AllDocuments(json) ==
    IF json = <<>> THEN [err |-> FALSE, docs |-> <<>>]
    ELSE IF "documents" \notin DOMAIN json[1] THEN [err |-> TRUE, docs |-> <<>>]
    ELSE LET rest == AllDocuments(Tail(json))
         IN  [err |-> rest.err, docs |-> json[1].documents \o rest.docs]

RECURSIVE DocumentInfo(_, _)
DocumentInfo(docs, acc) ==
    IF docs = <<>> THEN [err |-> FALSE, info |-> acc]
    ELSE IF {"id", "pardot_id", "filename"} \subseteq DOMAIN docs[1]
         THEN DocumentInfo(Tail(docs),
                DictSet(acc, docs[1].id,
                        [pardot_id |-> docs[1].pardot_id, filename |-> docs[1].filename]))
         ELSE [err |-> TRUE, info |-> <<>>]

extract_document_info(json) ==
    LET all == AllDocuments(json)
    IN  IF all.err THEN [err |-> TRUE, info |-> <<>>]
        ELSE DocumentInfo(all.docs, <<>>)

\* --------------------------------------------------- process_benchmark_response
\* line 143
UrlMatches(url, tech_id) == EndsWith(url, tech_id \o LatestSuffix)

\* index of the next technology at or after i whose test of line 143 succeeds, 0 if none
NextMatch(url, td, i) ==
    LET m == {j \in i..Len(td) : UrlMatches(url, td[j].tech_id)}
    IN  IF m = {} THEN 0 ELSE CHOOSE j \in m : \A k \in m : j <= k

\* lines 146-159: the records built from document_info for one technology
ResourcesOf(tech, info) ==
    [i \in 1..Len(info) |->
        [resource_id |-> info[i].k,
         resource_filename |-> PathJoin(tech.tech_path, info[i].v.filename),
         resource_pdf_url |-> PdfBase \o <<info[i].v.pardot_id>>]]

\* ------------------------------------------------------------------- main
\* download_benchmark_file awaiting its HTTP request
MainSuspendedInDownload(p) == p \in {"launch", "sleep", "download", "close"}

\* main is suspended at an await that yields to the event loop
\* (launch/newPage/goto, asyncio.sleep, browser.close): only then can a
\* callback or a task run.  download_benchmark_file contains no await.
MainSuspended(p) == p \in {"launch", "sleep", "close"}

\* the total assigned in the place of accumulated
TallyLast(td) ==
    IF td = <<>> THEN 0 ELSE Len(td[Len(td)].resource_list)

RECURSIVE TallyOf(_)
\* lines 194-197
TallyOf(td) ==
    IF td = <<>> THEN 0 ELSE Len(td[1].resource_list) + TallyOf(Tail(td))

RECURSIVE FlattenResources(_)
FlattenResources(td) ==
    IF td = <<>> THEN <<>> ELSE td[1].resource_list \o FlattenResources(Tail(td))

\* the next position of the loops of lines 200-202 at or after (t, r)
RECURSIVE NextPos(_, _, _)
NextPos(td, t, r) ==
    IF t > Len(td) THEN <<0, 0>>
    ELSE IF r <= Len(td[t].resource_list) THEN <<t, r>>
    ELSE NextPos(td, t + 1, 1)

\* Response.raise_for_status of requests: raises for 4xx and 5xx
RaisesForStatus(s) == s >= 400 /\ s < 600

Init ==
    /\ run = 1
    /\ pc = "fetch"
    /\ catalog \in Catalogs
    /\ technologies_dict = <<>>
    /\ tasks = EmptyBag
    /\ browser = "none"
    /\ total_benchmarks = 0
    /\ current_benchmark = 0
    /\ ti = 0 /\ ri = 0
    /\ \E pre \in BOOLEAN :
          IF pre
          THEN /\ dirs = create_directory({}, <<"O", "/", "L">>)
               /\ files = (<<"O", "/", "L", "/", "a">> :> "pre")
          ELSE /\ dirs = {}
               /\ files = << >>
    /\ dirs0 = dirs
    /\ catalogResp = NoResp
    /\ catalogReqs = 0
    /\ nresp = 0
    /\ appends = {}
    /\ appended = 0
    /\ keyErrors = 0
    /\ tallied = <<>>
    /\ calls = <<>>
    /\ gets = <<>>
    /\ writes = 0
    /\ skips = 0
    /\ prevComplete = FALSE
    /\ prevPaths = {}

\* fetch_technology_categories and lines 171-178 of main
FetchCatalog(status, wellformed) ==
    /\ pc = "fetch"
    /\ catalogReqs' = catalogReqs + 1
    /\ catalogResp' = [status |-> status, wellformed |-> wellformed]
    /\ IF wellformed
       THEN LET pairs == FlattenCatalog(catalog)
            IN  /\ dirs' = CatalogDirs(pairs, dirs)
                /\ technologies_dict' = InitTechnologies(TechnologyPaths(pairs, <<>>))
                /\ pc' = "launch"
       ELSE /\ pc' = "aborted"
            /\ UNCHANGED <<dirs, technologies_dict>>
    /\ UNCHANGED <<run, catalog, tasks, browser, total_benchmarks, current_benchmark,
                   ti, ri, files, nresp, appends, appended, keyErrors, tallied, calls, gets,
                   writes, skips, prevComplete, prevPaths, dirs0>>

\* lines 179-189: launch, newPage, goto, page.on
Launch(ok) ==
    /\ pc = "launch"
    /\ IF ok THEN browser' = "open" /\ pc' = "sleep"
             ELSE browser' = browser /\ pc' = "aborted"
    /\ catalogResp' = NoResp
    /\ UNCHANGED <<run, catalog, technologies_dict, tasks, total_benchmarks,
                   current_benchmark, ti, ri, dirs, files, catalogReqs,
                   nresp, appends, appended, keyErrors, tallied, calls, gets, writes, skips,
                   prevComplete, prevPaths, dirs0>>

\* the page issues a response: the listener of lines 184-189 schedules a task
\* (idx 0: not started; body 0: the body has not been read yet)
ResponseArrives(url) ==
    /\ MainSuspended(pc)
    /\ browser = "open"
    /\ nresp < MaxResponses
    /\ nresp' = nresp + 1
    /\ tasks' = tasks (+) SetToBag({[url |-> url, body |-> 0, idx |-> 0]})
    /\ UNCHANGED <<run, pc, catalog, technologies_dict, browser, total_benchmarks,
                   current_benchmark, ti, ri, dirs, files, catalogResp, catalogReqs,
                   appends, appended, keyErrors, tallied, calls, gets, writes, skips,
                   prevComplete, prevPaths, dirs0>>

\* task t advances to its next await response.json(), or returns
Advance(t, from, b) ==
    LET m == NextMatch(t.url, technologies_dict', from)
        rest == tasks (-) SetToBag({t})
    IN  tasks' = IF m = 0 THEN rest
                 ELSE rest (+) SetToBag({[url |-> t.url, body |-> b, idx |-> m]})

\* a new task runs up to its first await (lines 142-144)
TaskStart(t) ==
    /\ MainSuspended(pc)
    /\ BagIn(t, tasks)
    /\ t.idx = 0
    /\ technologies_dict' = technologies_dict
    /\ Advance(t, 1, 0)
    /\ UNCHANGED <<run, pc, catalog, browser, total_benchmarks, current_benchmark,
                   ti, ri, dirs, files, catalogResp, catalogReqs, nresp, appends,
                   appended, keyErrors, tallied, calls, gets, writes, skips,
                   prevComplete, prevPaths, dirs0>>

\* response.json() completes with body b (the body of a response is the same
\* every time it is read): lines 145-159, then on to the next await
TaskResume(t, b) ==
    /\ MainSuspended(pc)
    /\ BagIn(t, tasks)
    /\ t.idx > 0
    /\ t.body \in {0, b}
    /\ LET j == t.idx
           res == extract_document_info(Bodies[b])
       IN  IF res.err
           THEN /\ keyErrors' = keyErrors + 1
                /\ tasks' = tasks (-) SetToBag({t})
                /\ UNCHANGED <<technologies_dict, appends, appended>>
           ELSE /\ technologies_dict' =
                      [technologies_dict EXCEPT ![j].resource_list =
                          @ \o ResourcesOf(technologies_dict[j], res.info)]
                /\ appends' = appends \cup
                      {[url |-> t.url, tech_id |-> technologies_dict[j].tech_id]}
                /\ appended' = appended + Len(res.info)
                /\ Advance(t, j + 1, b)
                /\ UNCHANGED keyErrors
    /\ UNCHANGED <<run, pc, catalog, browser, total_benchmarks, current_benchmark,
                   ti, ri, dirs, files, catalogResp, catalogReqs, nresp, tallied,
                   calls, gets, writes, skips, prevComplete, prevPaths, dirs0>>

\* the sleep of line 192 returns; lines 194-199
Tally ==
    /\ pc = "sleep"
    /\ total_benchmarks' = TallyOf(technologies_dict)
    /\ current_benchmark' = 1
    /\ tallied' = FlattenResources(technologies_dict)
    /\ LET p == NextPos(technologies_dict, 1, 1)
       IN  /\ ti' = p[1] /\ ri' = p[2]
           /\ pc' = IF p[1] = 0 THEN "close" ELSE "download"
    /\ UNCHANGED <<run, catalog, technologies_dict, tasks, browser, dirs, files,
                   catalogResp, catalogReqs, nresp, appends, appended, appended, keyErrors, calls, gets,
                   writes, skips, prevComplete, prevPaths, dirs0>>

\* one iteration of lines 202-210 with the call of download_benchmark_file;
\* truncated: the stream breaks while the body is copied (lines 66-69)
Download(status, truncated) ==
    /\ pc = "download"
    /\ LET benchmark == technologies_dict[ti].resource_list[ri]
           file_path == benchmark.resource_filename
           next == NextPos(technologies_dict, ti, ri + 1)
           goOn == /\ current_benchmark' = current_benchmark + 1
                   /\ ti' = next[1] /\ ri' = next[2]
                   /\ pc' = IF next[1] = 0 THEN "close" ELSE "download"
           abort == /\ pc' = "aborted"
                    /\ UNCHANGED <<current_benchmark, ti, ri>>
       IN  /\ calls' = Append(calls, [k |-> current_benchmark, n |-> total_benchmarks,
                                      path |-> file_path,
                                      id |-> benchmark.resource_id,
                                      url |-> benchmark.resource_pdf_url])
           /\ IF PathExists(file_path)
              THEN /\ skips' = skips + 1
                   /\ goOn
                   /\ UNCHANGED <<gets, writes, files>>
              ELSE /\ gets' = Append(gets, [path |-> file_path, status |-> status,
                                            call |-> Len(calls) + 1])
                   /\ skips' = skips
                   /\ IF RaisesForStatus(status)
                      THEN abort /\ UNCHANGED <<writes, files>>
                      ELSE IF ParentOf(file_path) \notin dirs \cup {<<"/">>, <<>>}
                      THEN abort /\ UNCHANGED <<writes, files>>
                      ELSE /\ writes' = writes + 1
                           /\ files' = WriteFile(files, file_path, "pdf")
                           /\ IF truncated THEN abort ELSE goOn
    /\ UNCHANGED <<run, catalog, technologies_dict, tasks, browser, total_benchmarks,
                   dirs, catalogResp, catalogReqs, nresp, appends, appended, appended, keyErrors, tallied,
                   prevComplete, prevPaths, dirs0>>

\* line 212, and asyncio.run cancelling what is left when main returns
CloseBrowser ==
    /\ pc = "close"
    /\ browser' = "closed"
    /\ pc' = "done"
    /\ tasks' = EmptyBag
    /\ UNCHANGED <<run, catalog, technologies_dict, total_benchmarks, current_benchmark,
                   ti, ri, dirs, files, catalogResp, catalogReqs, nresp, appends, appended,
                   keyErrors, tallied, calls, gets, writes, skips, prevComplete,
                   prevPaths, dirs0>>

\* the program is run again; only the disk survives
Restart ==
    /\ pc \in {"done", "aborted"}
    /\ run < MaxRuns
    /\ run' = run + 1
    /\ pc' = "fetch"
    /\ technologies_dict' = <<>>
    /\ tasks' = EmptyBag
    /\ browser' = "none"
    /\ total_benchmarks' = 0
    /\ current_benchmark' = 0
    /\ ti' = 0 /\ ri' = 0
    /\ catalogResp' = NoResp
    /\ catalogReqs' = 0
    /\ nresp' = 0
    /\ appends' = {}
    /\ appended' = 0
    /\ keyErrors' = 0
    /\ tallied' = <<>>
    /\ calls' = <<>>
    /\ gets' = <<>>
    /\ writes' = 0
    /\ skips' = 0
    /\ prevComplete' = (pc = "done")
    /\ prevPaths' = {calls[i].path : i \in 1..Len(calls)}
    /\ dirs0' = dirs
    /\ UNCHANGED <<catalog, dirs, files>>

Next ==
    \/ \E s \in CatalogStatuses, w \in BOOLEAN : FetchCatalog(s, w)
    \/ \E ok \in BOOLEAN : Launch(ok)
    \/ \E u \in Urls(catalog) : ResponseArrives(u)
    \/ \E t \in BagToSet(tasks) : TaskStart(t)
    \/ \E t \in BagToSet(tasks), b \in 1..Len(Bodies) : TaskResume(t, b)
    \/ Tally
    \/ \E s \in Statuses, tr \in BOOLEAN : Download(s, tr)
    \/ CloseBrowser
    \/ Restart

Spec == Init /\ [][Next]_vars

\* ------------------------------------------------------------- properties
OnDisk(p) == p \in DOMAIN files \/ p \in dirs

CallPaths == {calls[i].path : i \in 1..Len(calls)}

HttpOk(s) == s >= 200 /\ s < 300

HttpError(s) == s >= 400 /\ s < 600

\* C1: a download call whose destination exists when it starts issues no
\* request, writes nothing and returns to the loop, and no file on disk is
\* ever changed or removed by any step.
C1_ExistingUntouched ==
    [][ /\ (pc = "download"
             /\ OnDisk(technologies_dict[ti].resource_list[ri].resource_filename))
           => /\ Len(calls') = Len(calls) + 1
              /\ gets' = gets
              /\ writes' = writes
              /\ files' = files
              /\ pc' \in {"download", "close"}
        /\ \A p \in DOMAIN files : p \in DOMAIN files' /\ files'[p] = files[p]
      ]_vars

\* a call was made for the file that was on disk before the program first ran
C1_Witness ==
    \E i \in 1..Len(calls) :
        /\ calls[i].path \in DOMAIN files
        /\ files[calls[i].path] = "pre"
        /\ skips > 0

\* C2 (as stated): a run that follows a run which ended normally issues no
\* PDF GET and writes no file.
C2_Claim ==
    (run > 1 /\ prevComplete) => (gets = <<>> /\ writes = 0)

\* C2 (amended): a run that follows a run which ended normally issues no PDF
\* GET and writes no file as long as every destination path it has called
\* download_benchmark_file for was also called for in that previous run.
C2_Idempotent ==
    (run > 1 /\ prevComplete /\ CallPaths \subseteq prevPaths)
        => (gets = <<>> /\ writes = 0)

\* a second run ended after skipping files that the first run downloaded
C2_Witness ==
    /\ run > 1 /\ prevComplete /\ pc = "done"
    /\ Len(calls) > 0 /\ CallPaths \subseteq prevPaths
    /\ \E p \in CallPaths : p \in DOMAIN files /\ files[p] = "pdf"

\* dir is a proper ancestor of p
IsUnder(dir, p) ==
    /\ Len(p) > Len(dir) + 1
    /\ SubSeq(p, 1, Len(dir) + 1) = dir \o <<"/">>
    /\ \A k \in 1..Len(p) : p[k] # ".."

\* C3: every record of a technology's resource_list has a resource_filename
\* under that technology's tech_path.
C3_Claim ==
    \A t \in 1..Len(technologies_dict) :
        \A r \in 1..Len(technologies_dict[t].resource_list) :
            IsUnder(technologies_dict[t].tech_path,
                    technologies_dict[t].resource_list[r].resource_filename)

\* C4: the k-th download call carries the label k/N with 1 <= k <= N, N the
\* number of records at the tally; the calls are made for the tallied records
\* in mapping-then-append order; a run that reaches the end of the loops has
\* made exactly N calls.
C4_SequentialLabels ==
    /\ Len(calls) <= Len(tallied)
    /\ \A i \in 1..Len(calls) :
          /\ calls[i].k = i
          /\ calls[i].n = Len(tallied)
          /\ 1 <= calls[i].k /\ calls[i].k <= calls[i].n
          /\ calls[i].path = tallied[i].resource_filename
          /\ calls[i].id = tallied[i].resource_id
          /\ calls[i].url = tallied[i].resource_pdf_url
    /\ pc \in {"close", "done"} => Len(calls) = Len(tallied)

\* a run ended after downloads for two different destinations
C4_Witness ==
    /\ pc = "done"
    /\ Len(calls) >= 2
    /\ calls[1].path # calls[2].path

\* C5: a catalog response with a non-2xx status or a malformed body aborts
\* the run: no directory is created, no browser launched, no download called
\* and the request is not repeated.
C5_Claim ==
    (catalogResp # NoResp /\ (~HttpOk(catalogResp.status) \/ ~catalogResp.wellformed))
        => /\ pc = "aborted"
           /\ dirs = dirs0
           /\ browser = "none"
           /\ calls = <<>>
           /\ catalogReqs = 1

\* what a GET that download_benchmark_file treats as failed leaves behind:
\* it is the last GET and the last call of the run, the run is aborted, no
\* file stands at its destination, the files of the earlier GETs do
FailedGet(i) ==
    /\ i = Len(gets)
    /\ gets[i].call = Len(calls)
    /\ pc = "aborted"
    /\ gets[i].path \notin DOMAIN files
    /\ \A j \in 1..(i - 1) : gets[j].path \in DOMAIN files

\* C6: every GET with a non-2xx status is a failed GET.
C6_Claim ==
    \A i \in 1..Len(gets) : ~HttpOk(gets[i].status) => FailedGet(i)

\* what does hold: every GET with a 4xx or 5xx status is a failed GET
HttpErrorAborts ==
    \A i \in 1..Len(gets) : HttpError(gets[i].status) => FailedGet(i)

\* C7: once a callback has died on a missing key during the wait, main does
\* not go on to the tally.
C7_Claim ==
    [][(keyErrors > 0 /\ pc = "sleep") => pc' \in {"sleep", "aborted"}]_vars

\* C8: from the tally (one step of main, which leaves pc at "download") to
\* the end of the last download no step changes a resource_list; once main
\* has set the mapping up it changes only by a callback appending records
\* while main is suspended in the sleep or in browser.close().
C8_NoAppendWhileDownloading ==
    [][ /\ (pc = "download") => (technologies_dict' = technologies_dict)
        /\ (technologies_dict' # technologies_dict /\ pc # "fetch" /\ pc' # "fetch")
              => /\ pc \in {"sleep", "close"}
                 /\ pc' = pc
                 /\ calls' = calls
                 /\ appended' > appended
      ]_vars

\* downloads are under way while a callback is still suspended on
\* response.json()
C8_Witness ==
    /\ pc = "download"
    /\ Len(calls) > 0
    /\ \E t \in BagToSet(tasks) : t.idx > 0

\* C9: a callback appends only to the technology whose endpoint
\* /<technology-id>/benchmarks/latest the response's URL ends with.
C9_Claim ==
    \A a \in appends : EndsWith(a.url, <<"/">> \o a.tech_id \o LatestSuffix)

\* C10: every record a callback appends stays in the lists and is counted by
\* the tally, and a run issues at most one GET per destination path: after a
\* call the file is on disk or the run is aborted.
C10_NoDedupOneGet ==
    /\ Len(FlattenResources(technologies_dict)) = appended
    /\ pc \in {"download", "close", "done"} => total_benchmarks = Len(tallied)
    /\ \A i, j \in 1..Len(gets) : gets[i].path = gets[j].path => i = j
    /\ \A i \in 1..Len(calls) :
          OnDisk(calls[i].path) \/ (pc = "aborted" /\ i = Len(calls))

\* the same response was handled twice, both copies were tallied and called
\* for, and one GET was issued
C10_Witness ==
    /\ pc = "done"
    /\ Cardinality(appends) = 1 /\ appended = 2
    /\ total_benchmarks = 2 /\ Len(calls) = 2
    /\ calls[1].path = calls[2].path
    /\ Len(gets) = 1

====
